---- MODULE Spec2Model ----
(***************************************************************************)
(* A model of pfmsoft.simple_serializer.simple_serializer: the             *)
(* DataclassSerializer converter (to_simple / from_simple and their        *)
(* generators), the JSON and YAML save / load operations of                *)
(* SimpleSerializerABC, and check_file, over a small filesystem.           *)
(*                                                                         *)
(* Error kinds.  The code raises ValueError everywhere; the kinds are told *)
(* apart by the raise statement:                                           *)
(*   "InvalidInputKind"  ValueError("complex_obj is not a dataclass ...")  *)
(*   "MissingDecoder"    ValueError("... not provided a complex factory.") *)
(*   "InvalidPath"       ValueError("Output path exists and it is a        *)
(*                                   directory. ...")                      *)
(*   "PathExists"        ValueError("Output path exists and overwrite is   *)
(*                                   false. ...")                          *)
(*   "CodecUnavailable"  ValueError("PyYaml not found.")                   *)
(* Errors of the libraries keep their Python names: "TypeError",           *)
(* "FileNotFoundError", "IsADirectoryError", "FileExistsError",            *)
(* "JSONDecodeError", "YAMLError".                                         *)
(***************************************************************************)
EXTENDS Integers, Sequences, FiniteSets, TLC

VARIABLES
    YAML_PRESENT,     \* module constant set at import time (lines 15-20)
    complex_factory,  \* the converter's decoder: "none" or "DCTestClass"
    fs,               \* the filesystem: path -> node
    fsPrev,           \* history: the filesystem before the last operation
    last,             \* history: the last operation, its arguments and outcome
    saved,            \* history: the most recent save to FilePath, if it succeeded
    gen,              \* the generator pipeline of the sequence operations
    callers           \* the concurrent callers of save_as_json

vars == <<YAML_PRESENT, complex_factory, fs, fsPrev, last, saved, gen, callers>>

---------------------------------------------------------------------------
(* Bounds *)

\* longest list of records handed to a sequence or save-many operation
MaxLen == 2

---------------------------------------------------------------------------
(* Python values *)

RECURSIVE SeqsUpTo(_, _)
SeqsUpTo(S, n) ==
    IF n = 0 THEN {<<>>}
    ELSE LET shorter == SeqsUpTo(S, n - 1)
         IN  shorter \cup {Append(s, x) : s \in {t \in shorter : Len(t) = n - 1}, x \in S}

\* A value is a record [kind, name, items]; name and items carry data only
\* for the kinds "instance" (a DCTestClass instance) and "dict" (the mapping
\* {"name": ..., "items": [...]}); for "str", name is the string.
Val(k, n, i) == [kind |-> k, name |-> n, items |-> i]

Instance(n, i) == Val("instance", n, i)
Dict(n, i)     == Val("dict", n, i)
Str(s)         == Val("str", s, <<>>)
TheClass       == Val("class", "", <<>>)    \* the type DCTestClass itself
NoneVal        == Val("none", "", <<>>)
ListVal        == Val("list", "", <<>>)     \* some list, as a decoder's argument

\* the records of the model: the first is the tests' (lines 35, 67 of
\* test_simple_serializer.py), the second has no items
Instances == {Instance("bob", <<"chair", "table">>), Instance("Richard", <<>>)}
Dicts     == {Dict(r.name, r.items) : r \in Instances}

\* what callers hand to to_simple: records, and values that are not records
NonRecords == {TheClass, Str("bob")}
Inputs     == Instances \cup NonRecords

\* what callers hand to the save operations: a record, or a value that is
\* not one; and the lists of them: records, the last of which may be a value
\* that is not one
SaveInputs == Instances \cup {Str("bob")}
SaveLists  ==
    SeqsUpTo(Instances, MaxLen)
        \cup {Append(l, Str("bob")) : l \in SeqsUpTo(Instances, MaxLen - 1)}

\* what callers hand to from_simple
Simples    == Dicts \cup {Str("bob"), NoneVal}

\* the outcome of a call: res is "ok" or the error raised; val the value returned
Ok(v)    == [res |-> "ok", val |-> v]
Raise(e) == [res |-> e, val |-> NoneVal]

---------------------------------------------------------------------------
(* DataclassSerializer: lines 189-236 *)

\* dataclasses.is_dataclass: true of a dataclass type and of its instances
is_dataclass(v) == v.kind \in {"instance", "class"}

\* dataclasses.asdict: the mapping of field names to values; TypeError
\* unless called on a dataclass instance
asdict(v) ==
    IF v.kind = "instance" THEN Ok(Dict(v.name, v.items)) ELSE Raise("TypeError")

\* a default encoder that loses the items
Mut_to_simple_default_dropsItems(data_cls) ==
    IF data_cls.kind = "instance"
    THEN Ok(Dict(data_cls.name, <<>>))
    ELSE Raise("InvalidInputKind")

_to_simple_default(data_cls) ==
    IF is_dataclass(data_cls) THEN asdict(data_cls) ELSE Raise("InvalidInputKind")

\* the converter is built with simple_factory = None, so lines 213-215 bind
\* simple_factory to _to_simple_default
to_simple(complex_obj) == _to_simple_default(complex_obj)

\* the decoder the tests supply: lambda x: DCTestClass(**x)
DCTestClassFactory(x) ==
    IF x.kind = "dict" THEN Ok(Instance(x.name, x.items)) ELSE Raise("TypeError")

from_simple(cf, simple_obj) ==
    IF cf = "none" THEN Raise("MissingDecoder") ELSE DCTestClassFactory(simple_obj)

\* the outcome of materializing a generator: res, and vals the list built
OkList(vs)    == [res |-> "ok", vals |-> vs]
RaiseList(e)  == [res |-> e, vals |-> <<>>]

\* a materialization that builds the list back to front
RECURSIVE Mut_ListToSimple_reversed(_, _)
Mut_ListToSimple_reversed(objs, acc) ==
    IF objs = <<>> THEN OkList(acc)
    ELSE LET e == to_simple(Head(objs))
         IN  IF e.res # "ok" THEN RaiseList(e.res)
             ELSE Mut_ListToSimple_reversed(Tail(objs), <<e.val>> \o acc)

\* list(self.to_simple_gen(objs)): encode in order, stop at the first error
RECURSIVE ListToSimple(_, _)
ListToSimple(objs, acc) ==
    IF objs = <<>> THEN OkList(acc)
    ELSE LET e == to_simple(Head(objs))
         IN  IF e.res # "ok" THEN RaiseList(e.res)
             ELSE ListToSimple(Tail(objs), Append(acc, e.val))

\* list(self.from_simple_gen(simples)): decode in order, stop at the first error
RECURSIVE ListFromSimple(_, _, _)
ListFromSimple(cf, simples, acc) ==
    IF simples = <<>> THEN OkList(acc)
    ELSE LET d == from_simple(cf, Head(simples))
         IN  IF d.res # "ok" THEN RaiseList(d.res)
             ELSE ListFromSimple(cf, Tail(simples), Append(acc, d.val))

---------------------------------------------------------------------------
(* The text codecs.  A text is a sequence of tokens [t, s]: punctuation,    *)
(* double-quoted scalars ("qstr"), YAML plain scalars ("plain"), the block  *)
(* sequence entry "-", the line break "nl" and one level of indentation     *)
(* "ind".  White space that carries no structure is left out.               *)

Tok(t)   == [t |-> t, s |-> ""]
QStr(s)  == [t |-> "qstr", s |-> s]
Plain(s) == [t |-> "plain", s |-> s]

RECURSIVE Joined(_, _)
\* the texts of parts, with sep between neighbours
Joined(parts, sep) ==
    IF parts = <<>> THEN <<>>
    ELSE IF Len(parts) = 1 THEN parts[1]
    ELSE parts[1] \o sep \o Joined(Tail(parts), sep)

\* json.dump of a list of strings
JsonStrArray(items) ==
    <<Tok("[")>> \o Joined([i \in 1..Len(items) |-> <<QStr(items[i])>>], <<Tok(",")>>) \o <<Tok("]")>>

\* json.dump of the mapping {"name": ..., "items": [...]}: keys in insertion
\* order, which for asdict is the order of the fields
JsonObject(d) ==
    <<Tok("{"), QStr("name"), Tok(":"), QStr(d.name), Tok(","),
      QStr("items"), Tok(":")>> \o JsonStrArray(d.items) \o <<Tok("}")>>

\* json_dump(obj=data, ...) of one mapping (line 107)
json_dump_one(d) == JsonObject(d)

\* json_dump(obj=data, ...) of a list of mappings (line 120)
json_dump_list(ds) ==
    <<Tok("[")>> \o Joined([i \in 1..Len(ds) |-> JsonObject(ds[i])], <<Tok(",")>>) \o <<Tok("]")>>

\* yaml.safe_dump of a mapping, in block style with sorted keys: the lines
\* after the first start with prefix
YamlMapping(d, prefix) ==
    (IF d.items = <<>>
     THEN <<Plain("items"), Tok(":"), Tok("["), Tok("]"), Tok("nl")>>
     ELSE <<Plain("items"), Tok(":"), Tok("nl")>>
          \o Joined([i \in 1..Len(d.items) |->
                       prefix \o <<Tok("-"), Plain(d.items[i]), Tok("nl")>>], <<>>))
    \o prefix \o <<Plain("name"), Tok(":"), Plain(d.name), Tok("nl")>>

\* safe_dump(data=..., ...) of one mapping (line 143)
yaml_dump_one(d) == YamlMapping(d, <<>>)

\* safe_dump(data=..., ...) of a list of mappings (lines 157-161)
yaml_dump_list(ds) ==
    IF ds = <<>> THEN <<Tok("["), Tok("]"), Tok("nl")>>
    ELSE Joined([i \in 1..Len(ds) |-> <<Tok("-")>> \o YamlMapping(ds[i], <<Tok("ind")>>)], <<>>)

(* Parsing.  A parser takes the tokens still to read and returns            *)
(* [ok, ..., rest]; the value parsed is in a field of its own type.         *)

PFail == [ok |-> FALSE, strs |-> <<>>, dict |-> Dict("", <<>>), dicts |-> <<>>, rest |-> <<>>]
PStrs(v, rest)  == [PFail EXCEPT !.ok = TRUE, !.strs = v, !.rest = rest]
PDict(v, rest)  == [PFail EXCEPT !.ok = TRUE, !.dict = v, !.rest = rest]
PDicts(v, rest) == [PFail EXCEPT !.ok = TRUE, !.dicts = v, !.rest = rest]

IsTok(toks, i, t) == Len(toks) >= i /\ toks[i].t = t
IsKey(toks, i, scalars, k) == Len(toks) >= i /\ toks[i].t \in scalars /\ toks[i].s = k
Drop(toks, n) == SubSeq(toks, n + 1, Len(toks))

RECURSIVE FlowStrElems(_, _, _)
\* the elements of a flow sequence of scalars, after "[" and before "]"
FlowStrElems(toks, scalars, acc) ==
    IF ~(Len(toks) >= 1 /\ toks[1].t \in scalars) THEN PFail
    ELSE LET acc2 == Append(acc, toks[1].s)
         IN  IF IsTok(toks, 2, "]") THEN PStrs(acc2, Drop(toks, 2))
             ELSE IF IsTok(toks, 2, ",") THEN FlowStrElems(Drop(toks, 2), scalars, acc2)
             ELSE PFail

\* a flow sequence of scalars: "[" "]" or "[" scalar ("," scalar)* "]"
FlowStrArray(toks, scalars) ==
    IF ~IsTok(toks, 1, "[") THEN PFail
    ELSE IF IsTok(toks, 2, "]") THEN PStrs(<<>>, Drop(toks, 2))
    ELSE FlowStrElems(Drop(toks, 1), scalars, <<>>)

\* a flow mapping with the keys "name" and "items", in either order
FlowObject(toks, scalars) ==
    IF ~(IsTok(toks, 1, "{") /\ IsTok(toks, 3, ":")) THEN PFail
    ELSE IF IsKey(toks, 2, scalars, "name")
    THEN IF ~(Len(toks) >= 6 /\ toks[4].t \in scalars /\ IsTok(toks, 5, ",")
              /\ IsKey(toks, 6, scalars, "items") /\ IsTok(toks, 7, ":"))
         THEN PFail
         ELSE LET a == FlowStrArray(Drop(toks, 7), scalars)
              IN  IF a.ok /\ IsTok(a.rest, 1, "}")
                  THEN PDict(Dict(toks[4].s, a.strs), Drop(a.rest, 1))
                  ELSE PFail
    ELSE IF IsKey(toks, 2, scalars, "items")
    THEN LET a == FlowStrArray(Drop(toks, 3), scalars)
         IN  IF a.ok /\ IsTok(a.rest, 1, ",") /\ IsKey(a.rest, 2, scalars, "name")
                /\ IsTok(a.rest, 3, ":") /\ Len(a.rest) >= 5
                /\ a.rest[4].t \in scalars /\ IsTok(a.rest, 5, "}")
             THEN PDict(Dict(a.rest[4].s, a.strs), Drop(a.rest, 5))
             ELSE PFail
    ELSE PFail

RECURSIVE FlowObjElems(_, _, _)
\* the elements of a flow sequence of mappings, after "[" and before "]"
FlowObjElems(toks, scalars, acc) ==
    LET o == FlowObject(toks, scalars)
    IN  IF ~o.ok THEN PFail
        ELSE LET acc2 == Append(acc, o.dict)
             IN  IF IsTok(o.rest, 1, "]") THEN PDicts(acc2, Drop(o.rest, 1))
                 ELSE IF IsTok(o.rest, 1, ",") THEN FlowObjElems(Drop(o.rest, 1), scalars, acc2)
                 ELSE PFail

\* a flow sequence of mappings
FlowObjArray(toks, scalars) ==
    IF ~IsTok(toks, 1, "[") THEN PFail
    ELSE IF IsTok(toks, 2, "]") THEN PDicts(<<>>, Drop(toks, 2))
    ELSE FlowObjElems(Drop(toks, 1), scalars, <<>>)

\* nothing but line breaks is left
OnlyBlank(toks) == \A i \in 1..Len(toks) : toks[i].t = "nl"

\* A parsed document: kind "dict" (elems holds the one mapping), "list"
\* (elems holds the mappings) or "none" (YAML's empty document)
Doc(k, elems) == [kind |-> k, elems |-> elems]
ParseOk(doc)  == [res |-> "ok", doc |-> doc]
ParseErr(e)   == [res |-> e, doc |-> Doc("none", <<>>)]

\* the document in flow style, or the error err
FlowDocument(text, scalars, err) ==
    IF IsTok(text, 1, "{")
    THEN LET o == FlowObject(text, scalars)
         IN  IF o.ok /\ OnlyBlank(o.rest) THEN ParseOk(Doc("dict", <<o.dict>>)) ELSE ParseErr(err)
    ELSE LET a == FlowObjArray(text, scalars)
         IN  IF a.ok /\ OnlyBlank(a.rest) THEN ParseOk(Doc("list", a.dicts)) ELSE ParseErr(err)

\* json_load(file) (lines 124, 128): JSON knows double-quoted strings only
json_load(text) == FlowDocument(text, {"qstr"}, "JSONDecodeError")

RECURSIVE BlockItems(_, _, _)
\* the lines prefix "-" scalar nl of a block sequence of scalars
BlockItems(toks, prefix, acc) ==
    LET n == Len(prefix)
    IN  IF Len(toks) >= n + 3 /\ SubSeq(toks, 1, n) = prefix /\ IsTok(toks, n + 1, "-")
           /\ toks[n + 2].t \in {"plain", "qstr"} /\ IsTok(toks, n + 3, "nl")
        THEN BlockItems(Drop(toks, n + 3), prefix, Append(acc, toks[n + 2].s))
        ELSE PStrs(acc, toks)

\* a block mapping with the keys "items" and "name"; its first line has no prefix
BlockMapping(toks, prefix) ==
    IF ~(IsKey(toks, 1, {"plain"}, "items") /\ IsTok(toks, 2, ":")) THEN PFail
    ELSE LET its == IF IsTok(toks, 3, "nl")
                    THEN BlockItems(Drop(toks, 3), prefix, <<>>)
                    ELSE LET a == FlowStrArray(Drop(toks, 2), {"plain", "qstr"})
                         IN  IF a.ok /\ IsTok(a.rest, 1, "nl")
                             THEN PStrs(a.strs, Drop(a.rest, 1)) ELSE PFail
             n   == Len(prefix)
             r   == its.rest
         IN  IF its.ok /\ Len(r) >= n + 4 /\ SubSeq(r, 1, n) = prefix
                /\ IsKey(r, n + 1, {"plain"}, "name") /\ IsTok(r, n + 2, ":")
                /\ r[n + 3].t \in {"plain", "qstr"} /\ IsTok(r, n + 4, "nl")
             THEN PDict(Dict(r[n + 3].s, its.strs), Drop(r, n + 4))
             ELSE PFail

RECURSIVE BlockSequence(_, _)
\* a block sequence of mappings: "-" mapping, repeated to the end of the text
BlockSequence(toks, acc) ==
    IF toks = <<>> THEN PDicts(acc, <<>>)
    ELSE IF ~IsTok(toks, 1, "-") THEN PFail
    ELSE LET m == BlockMapping(Drop(toks, 1), <<Tok("ind")>>)
         IN  IF m.ok THEN BlockSequence(m.rest, Append(acc, m.dict)) ELSE PFail

\* safe_load(file) (lines 167, 173): the empty document is None; block and
\* flow styles are both read
safe_load(text) ==
    IF OnlyBlank(text) THEN ParseOk(Doc("none", <<>>))
    ELSE IF text[1].t \in {"[", "{"} THEN FlowDocument(text, {"plain", "qstr"}, "YAMLError")
    ELSE IF text[1].t = "-"
    THEN LET b == BlockSequence(text, <<>>)
         IN  IF b.ok THEN ParseOk(Doc("list", b.dicts)) ELSE ParseErr("YAMLError")
    ELSE LET m == BlockMapping(text, <<>>)
         IN  IF m.ok /\ OnlyBlank(m.rest) THEN ParseOk(Doc("dict", <<m.dict>>))
             ELSE ParseErr("YAMLError")

---------------------------------------------------------------------------
(* The filesystem: the directory "d", and the file "n/g" whose parent "n"   *)
(* does not exist at first.  The root holds "d" and "n" and always exists.  *)

DirPath   == "d"
ParentDir == "n"
FilePath  == "n/g"
Paths     == {DirPath, ParentDir, FilePath}
Targets   == {DirPath, FilePath}     \* the paths handed to save and load
Root      == "."

Parent(p) == IF p = FilePath THEN ParentDir ELSE Root

Absent     == [type |-> "absent", content |-> <<>>]
Directory  == [type |-> "dir", content |-> <<>>]
File(text) == [type |-> "file", content |-> text]

\* Path.exists / is_dir / is_file: a path under a missing parent does not exist
exists(f, p)  == f[p].type # "absent"
is_dir(f, p)  == f[p].type = "dir"
is_file(f, p) == f[p].type = "file"

\* a check that never looks at overwrite
Mut_check_file_noOverwriteGuard(f, path_out, overwrite) ==
    IF exists(f, path_out) /\ is_dir(f, path_out) THEN "InvalidPath" ELSE "ok"

\* a check that lets directories through
Mut_check_file_noDirGuard(f, path_out, overwrite) ==
    IF exists(f, path_out) /\ is_file(f, path_out) /\ ~overwrite THEN "PathExists" ELSE "ok"

\* check_file: "ok" where the code returns True
check_file(f, path_out, overwrite) ==
    IF exists(f, path_out)
    THEN IF is_dir(f, path_out) THEN "InvalidPath"
         ELSE IF is_file(f, path_out) /\ ~overwrite THEN "PathExists"
         ELSE "ok"
    ELSE "ok"

\* the outcome of a filesystem call: res, and the filesystem after it
FsOk(f)       == [res |-> "ok", fs |-> f]
FsErr(e, f)   == [res |-> e, fs |-> f]

\* path_out.parent.mkdir(exist_ok=True, parents=True)
mkdir_parent(f, path_out) ==
    LET par == Parent(path_out)
    IN  IF par = Root \/ is_dir(f, par) THEN FsOk(f)
        ELSE IF is_file(f, par) THEN FsErr("FileExistsError", f)
        ELSE FsOk([f EXCEPT ![par] = Directory])

\* open(path_out, "w"): creates the file, or truncates it
open_w(f, path_out) ==
    IF is_dir(f, path_out) THEN FsErr("IsADirectoryError", f)
    ELSE IF Parent(path_out) # Root /\ ~is_dir(f, Parent(path_out))
    THEN FsErr("FileNotFoundError", f)
    ELSE FsOk([f EXCEPT ![path_out] = File(<<>>)])

\* the codec writes text through the handle just opened, whose position is
\* the start of the file: text replaces what is there, up to its length
write(f, path_out, text) ==
    [f EXCEPT ![path_out] = File(text \o SubSeq(@.content, Len(text) + 1, Len(@.content)))]

\* open(path_in, "r")
open_r(f, path_in) ==
    IF is_dir(f, path_in) THEN "IsADirectoryError"
    ELSE IF ~exists(f, path_in) THEN "FileNotFoundError"
    ELSE "ok"

---------------------------------------------------------------------------
(* SimpleSerializerABC: lines 96-174.  Each operation returns              *)
(* [res, fs, vals]: the outcome, the filesystem after it and, for a load,  *)
(* the records returned.                                                   *)

Done(res, f)       == [res |-> res, fs |-> f, vals |-> <<>>]
Loaded(res, f, vs) == [res |-> res, fs |-> f, vals |-> vs]

\* the steps shared by the four save operations, once data is encoded:
\* open the file and dump the text
OpenAndDump(f, path_out, text) ==
    LET o == open_w(f, path_out)
    IN  IF o.res # "ok" THEN Done(o.res, f)
        ELSE Done("ok", write(o.fs, path_out, text))

save_as_json(f, path_out, complex_obj, overwrite) ==
    LET c == check_file(f, path_out, overwrite)
        m == mkdir_parent(f, path_out)
        e == to_simple(complex_obj)
    IN  IF c # "ok" THEN Done(c, f)
        ELSE IF m.res # "ok" THEN Done(m.res, f)
        ELSE IF e.res # "ok" THEN Done(e.res, m.fs)
        ELSE OpenAndDump(m.fs, path_out, json_dump_one(e.val))

save_iter_as_json(f, path_out, complex_obj, overwrite) ==
    LET c == check_file(f, path_out, overwrite)
        m == mkdir_parent(f, path_out)
        e == ListToSimple(complex_obj, <<>>)
    IN  IF c # "ok" THEN Done(c, f)
        ELSE IF m.res # "ok" THEN Done(m.res, f)
        ELSE IF e.res # "ok" THEN Done(e.res, m.fs)
        ELSE OpenAndDump(m.fs, path_out, json_dump_list(e.vals))

\* a save that looks for the codec only after check_file and mkdir
Mut_save_as_yaml_checkFirst(yaml, f, path_out, complex_obj, overwrite) ==
    LET c == check_file(f, path_out, overwrite)
        m == mkdir_parent(f, path_out)
        o == open_w(m.fs, path_out)
        e == to_simple(complex_obj)
    IN  IF c # "ok" THEN Done(c, f)
        ELSE IF m.res # "ok" THEN Done(m.res, f)
        ELSE IF ~yaml THEN Done("CodecUnavailable", m.fs)
        ELSE IF o.res # "ok" THEN Done(o.res, m.fs)
        ELSE IF e.res # "ok" THEN Done(e.res, o.fs)
        ELSE Done("ok", write(o.fs, path_out, yaml_dump_one(e.val)))

\* the file is opened, and so truncated, before to_simple is called
\* (lines 142-143)
save_as_yaml(yaml, f, path_out, complex_obj, overwrite) ==
    LET c == check_file(f, path_out, overwrite)
        m == mkdir_parent(f, path_out)
        o == open_w(m.fs, path_out)
        e == to_simple(complex_obj)
    IN  IF ~yaml THEN Done("CodecUnavailable", f)
        ELSE IF c # "ok" THEN Done(c, f)
        ELSE IF m.res # "ok" THEN Done(m.res, f)
        ELSE IF o.res # "ok" THEN Done(o.res, m.fs)
        ELSE IF e.res # "ok" THEN Done(e.res, o.fs)
        ELSE Done("ok", write(o.fs, path_out, yaml_dump_one(e.val)))

\* the file is opened, and so truncated, before the list is built
\* (lines 156-161)
save_iter_as_yaml(yaml, f, path_out, complex_obj, overwrite) ==
    LET c == check_file(f, path_out, overwrite)
        m == mkdir_parent(f, path_out)
        o == open_w(m.fs, path_out)
        e == ListToSimple(complex_obj, <<>>)
    IN  IF ~yaml THEN Done("CodecUnavailable", f)
        ELSE IF c # "ok" THEN Done(c, f)
        ELSE IF m.res # "ok" THEN Done(m.res, f)
        ELSE IF o.res # "ok" THEN Done(o.res, m.fs)
        ELSE IF e.res # "ok" THEN Done(e.res, o.fs)
        ELSE Done("ok", write(o.fs, path_out, yaml_dump_list(e.vals)))

\* the parsed document as the argument of from_simple
DocValue(doc) ==
    IF doc.kind = "dict" THEN doc.elems[1]
    ELSE IF doc.kind = "list" THEN ListVal
    ELSE NoneVal

\* the parsed document as the iterable of from_simple_gen: a list gives its
\* elements, a mapping its keys, None is not iterable
DocItems(doc) ==
    IF doc.kind = "list" THEN OkList(doc.elems)
    ELSE IF doc.kind = "dict" THEN OkList(<<Str("name"), Str("items")>>)
    ELSE RaiseList("TypeError")

\* open, parse with load, then from_simple: lines 123-124 and 166-167
LoadOne(cf, f, path_in, p) ==
    LET o == open_r(f, path_in)
        d == from_simple(cf, DocValue(p.doc))
    IN  IF o # "ok" THEN Done(o, f)
        ELSE IF p.res # "ok" THEN Done(p.res, f)
        ELSE IF d.res # "ok" THEN Done(d.res, f)
        ELSE Loaded("ok", f, <<d.val>>)

\* open, parse with load, then list(from_simple_gen(...)): lines 127-129 and
\* 172-174
LoadList(cf, f, path_in, p) ==
    LET o  == open_r(f, path_in)
        it == DocItems(p.doc)
        l  == ListFromSimple(cf, it.vals, <<>>)
    IN  IF o # "ok" THEN Done(o, f)
        ELSE IF p.res # "ok" THEN Done(p.res, f)
        ELSE IF it.res # "ok" THEN Done(it.res, f)
        ELSE IF l.res # "ok" THEN Done(l.res, f)
        ELSE Loaded("ok", f, l.vals)

load_from_json(cf, f, path_in) == LoadOne(cf, f, path_in, json_load(f[path_in].content))

load_from_json_list(cf, f, path_in) == LoadList(cf, f, path_in, json_load(f[path_in].content))

load_from_yaml(yaml, cf, f, path_in) ==
    IF ~yaml THEN Done("CodecUnavailable", f)
    ELSE LoadOne(cf, f, path_in, safe_load(f[path_in].content))

load_from_yaml_list(yaml, cf, f, path_in) ==
    IF ~yaml THEN Done("CodecUnavailable", f)
    ELSE LoadList(cf, f, path_in, safe_load(f[path_in].content))

---------------------------------------------------------------------------
(* The sequential program: one caller, one operation at a time *)

\* the record of an operation: op, its arguments, res and the values returned
Op(op, path, fmt, overwrite, args, res, vals) ==
    [op |-> op, path |-> path, fmt |-> fmt, overwrite |-> overwrite,
     args |-> args, res |-> res, vals |-> vals]

NoOp == Op("none", "", "", FALSE, <<>>, "ok", <<>>)

NotSaved == [kind |-> "none", fmt |-> "", objs |-> <<>>, n |-> 0]

\* the history of saves to FilePath: the last save if it succeeded, with the
\* number (up to 2) of successful saves in a row; a failed save clears it
SavedAfter(path, kind, fmt, objs, res) ==
    IF path # FilePath THEN saved
    ELSE IF res # "ok" THEN NotSaved
    ELSE [kind |-> kind, fmt |-> fmt, objs |-> objs,
          n |-> IF saved.n = 0 THEN 1 ELSE 2]

InitFs == [p \in Paths |-> IF p = DirPath THEN Directory ELSE Absent]

NoGen == [kind |-> "none", src |-> <<>>, pos |-> 0, state |-> "none",
          out |-> <<>>, encoded |-> <<>>, decoded |-> <<>>, res |-> "ok", nexts |-> 0]

NoCallers == <<>>

Init ==
    /\ YAML_PRESENT \in BOOLEAN
    /\ complex_factory \in {"none", "DCTestClass"}
    /\ fs = InitFs
    /\ fsPrev = InitFs
    /\ last = NoOp
    /\ saved = NotSaved
    /\ gen = NoGen
    /\ callers = NoCallers

\* what an operation leaves alone
Env == <<YAML_PRESENT, complex_factory, gen, callers>>

\* serializer.to_simple(v)
ToSimple ==
    \E v \in Inputs :
        LET r == to_simple(v)
        IN  /\ last' = Op("to_simple", "", "", FALSE, <<v>>, r.res, <<r.val>>)
            /\ fsPrev' = fs
            /\ UNCHANGED <<fs, saved, Env>>

\* serializer.from_simple(x)
FromSimple ==
    \E x \in Simples :
        LET r == from_simple(complex_factory, x)
        IN  /\ last' = Op("from_simple", "", "", FALSE, <<x>>, r.res, <<r.val>>)
            /\ fsPrev' = fs
            /\ UNCHANGED <<fs, saved, Env>>

\* serializer.from_simple(serializer.to_simple(v)), the second half: decode
\* what the last call of to_simple returned; args keeps the record encoded
RoundTrip ==
    /\ last.op = "to_simple"
    /\ last.res = "ok"
    /\ LET r == from_simple(complex_factory, last.vals[1])
       IN  last' = Op("round_trip", "", "", FALSE, last.args, r.res, <<r.val>>)
    /\ fsPrev' = fs
    /\ UNCHANGED <<fs, saved, Env>>

\* the state after a save or load whose outcome is r
Finish(op, path, fmt, overwrite, args, r) ==
    /\ last' = Op(op, path, fmt, overwrite, args, r.res, r.vals)
    /\ fsPrev' = fs
    /\ fs' = r.fs
    /\ UNCHANGED Env

SaveAsJson ==
    \E path \in Targets, v \in SaveInputs, ow \in BOOLEAN :
        LET r == save_as_json(fs, path, v, ow)
        IN  /\ Finish("save_one", path, "json", ow, <<v>>, r)
            /\ saved' = SavedAfter(path, "one", "json", <<v>>, r.res)

SaveIterAsJson ==
    \E path \in Targets, vs \in SaveLists, ow \in BOOLEAN :
        LET r == save_iter_as_json(fs, path, vs, ow)
        IN  /\ Finish("save_many", path, "json", ow, vs, r)
            /\ saved' = SavedAfter(path, "many", "json", vs, r.res)

SaveAsYaml ==
    \E path \in Targets, v \in SaveInputs, ow \in BOOLEAN :
        LET r == save_as_yaml(YAML_PRESENT, fs, path, v, ow)
        IN  /\ Finish("save_one", path, "yaml", ow, <<v>>, r)
            /\ saved' = SavedAfter(path, "one", "yaml", <<v>>, r.res)

SaveIterAsYaml ==
    \E path \in Targets, vs \in SaveLists, ow \in BOOLEAN :
        LET r == save_iter_as_yaml(YAML_PRESENT, fs, path, vs, ow)
        IN  /\ Finish("save_many", path, "yaml", ow, vs, r)
            /\ saved' = SavedAfter(path, "many", "yaml", vs, r.res)

LoadFromJson ==
    \E path \in Targets :
        /\ Finish("load_one", path, "json", FALSE, <<>>,
                  load_from_json(complex_factory, fs, path))
        /\ UNCHANGED saved

LoadFromJsonList ==
    \E path \in Targets :
        /\ Finish("load_many", path, "json", FALSE, <<>>,
                  load_from_json_list(complex_factory, fs, path))
        /\ UNCHANGED saved

LoadFromYaml ==
    \E path \in Targets :
        /\ Finish("load_one", path, "yaml", FALSE, <<>>,
                  load_from_yaml(YAML_PRESENT, complex_factory, fs, path))
        /\ UNCHANGED saved

LoadFromYamlList ==
    \E path \in Targets :
        /\ Finish("load_many", path, "yaml", FALSE, <<>>,
                  load_from_yaml_list(YAML_PRESENT, complex_factory, fs, path))
        /\ UNCHANGED saved

Next ==
    \/ ToSimple
    \/ FromSimple
    \/ RoundTrip
    \/ SaveAsJson
    \/ SaveIterAsJson
    \/ SaveAsYaml
    \/ SaveIterAsYaml
    \/ LoadFromJson
    \/ LoadFromJsonList
    \/ LoadFromYaml
    \/ LoadFromYamlList

Spec == Init /\ [][Next]_vars

---------------------------------------------------------------------------
(* Properties of the sequential program *)

IsSave == last.op \in {"save_one", "save_many"}
IsLoad == last.op \in {"load_one", "load_many"}

\* the codec of the last operation's format is there
CodecThere == last.fmt = "yaml" => YAML_PRESENT

\* the last operation's load, of text
Parse(fmt, text) == IF fmt = "json" THEN json_load(text) ELSE safe_load(text)

\* the mapping of a record's field names to its field values
FieldsOf(r) == Dict(r.name, r.items)

\* the text of the records args as the last operation's format writes them
TextOf(op, fmt, args) ==
    LET ds == [i \in 1..Len(args) |-> FieldsOf(args[i])]
    IN  IF op = "save_one"
        THEN IF fmt = "json" THEN json_dump_one(ds[1]) ELSE yaml_dump_one(ds[1])
        ELSE IF fmt = "json" THEN json_dump_list(ds) ELSE yaml_dump_list(ds)

AllInstances(args) == \A i \in 1..Len(args) : args[i] \in Instances

\* C1: a converter without a decoder fails with MissingDecoder on every
\* decode, on every load_one of a file its codec can parse, and on every
\* load_many of a file holding a list, of any length.
C1_MissingDecoderOnEveryCall ==
    (/\ complex_factory = "none"
     /\ last.op \in {"from_simple", "load_one", "load_many"}
     /\ IsLoad => /\ is_file(fsPrev, last.path)
                  /\ CodecThere
                  /\ Parse(last.fmt, fsPrev[last.path].content).res = "ok"
                  /\ last.op = "load_many" =>
                         Parse(last.fmt, fsPrev[last.path].content).doc.kind = "list")
    => last.res = "MissingDecoder"

\* C2, as stated: a save to an existing file fails with PathExists and leaves
\* the filesystem alone when overwrite is false, and succeeds when overwrite
\* is true (the records being ones the encoder accepts), the file then
\* holding exactly the text of what was saved.
C2_AsStated ==
    (IsSave /\ is_file(fsPrev, last.path))
    => IF last.overwrite
       THEN AllInstances(last.args) =>
            /\ last.res = "ok"
            /\ fs = [fsPrev EXCEPT ![last.path] = File(TextOf(last.op, last.fmt, last.args))]
       ELSE last.res = "PathExists" /\ fs = fsPrev

\* C2, amended: the same, for a format whose codec is present.
C2_OverwriteGuard ==
    (IsSave /\ is_file(fsPrev, last.path) /\ CodecThere)
    => IF last.overwrite
       THEN AllInstances(last.args) =>
            /\ last.res = "ok"
            /\ fs = [fsPrev EXCEPT ![last.path] = File(TextOf(last.op, last.fmt, last.args))]
       ELSE last.res = "PathExists" /\ fs = fsPrev

\* an overwriting save has replaced a file that held another text
C2_Witness ==
    /\ IsSave /\ last.overwrite /\ last.res = "ok"
    /\ is_file(fsPrev, last.path)
    /\ fsPrev[last.path].content # <<>>
    /\ fsPrev[last.path].content # fs[last.path].content

\* C3, as stated: save_one to an existing directory fails with InvalidPath,
\* whatever overwrite and the format are, and changes nothing.
C3_AsStated ==
    (last.op = "save_one" /\ is_dir(fsPrev, last.path))
    => last.res = "InvalidPath" /\ fs = fsPrev

\* C3, amended: save_one to an existing directory changes nothing and fails,
\* with InvalidPath when the format's codec is present and with
\* CodecUnavailable when it is YAML's and absent.
C3_DirectoryGuard ==
    (last.op = "save_one" /\ is_dir(fsPrev, last.path))
    => /\ fs = fsPrev
       /\ last.res = IF CodecThere THEN "InvalidPath" ELSE "CodecUnavailable"

\* a YAML save_one with overwrite has been refused on a directory
C3_Witness ==
    /\ last.op = "save_one" /\ last.fmt = "yaml" /\ last.overwrite
    /\ is_dir(fsPrev, last.path)
    /\ last.res = "InvalidPath"

\* the text a load_many of FilePath in format fmt reads now
LoadManyNow(fmt) ==
    IF fmt = "json" THEN load_from_json_list(complex_factory, fs, FilePath)
    ELSE load_from_yaml_list(YAML_PRESENT, complex_factory, fs, FilePath)

\* C4: while the last save to a path is a successful save_many of the list L,
\* every save before it having succeeded too, load_many in the same format
\* with the inverse decoder returns L.
C4_FileRoundTrip ==
    (saved.kind = "many" /\ complex_factory = "DCTestClass")
    => /\ LoadManyNow(saved.fmt).res = "ok"
       /\ LoadManyNow(saved.fmt).vals = saved.objs
       /\ (last.op = "load_many" /\ last.path = FilePath /\ last.fmt = saved.fmt)
          => last.res = "ok" /\ last.vals = saved.objs

\* load_many has returned two different records, saved over an earlier save
C4_Witness ==
    /\ last.op = "load_many" /\ last.path = FilePath /\ last.res = "ok"
    /\ saved.kind = "many" /\ saved.fmt = last.fmt /\ saved.n = 2
    /\ Len(last.vals) = 2 /\ last.vals[1] # last.vals[2]

\* C5: encode of a record is the mapping of its field names to its field
\* values, and decoding that mapping gives the record back.
C5_RoundTrip ==
    /\ (last.op = "to_simple" /\ last.args[1] \in Instances)
       => last.res = "ok" /\ last.vals[1] = FieldsOf(last.args[1])
    /\ (last.op = "round_trip" /\ complex_factory = "DCTestClass")
       => /\ last.res = "ok"
          /\ last.vals[1].kind = "instance"
          /\ last.vals[1].name = last.args[1].name
          /\ last.vals[1].items = last.args[1].items

\* a record with items has been encoded and decoded
C5_Witness ==
    /\ last.op = "round_trip" /\ last.res = "ok"
    /\ last.args[1] \in Instances /\ last.args[1].items # <<>>

\* the YAML operation last called, in JSON, on the filesystem it was called on
JsonTwin ==
    CASE last.op = "save_one"  -> save_as_json(fsPrev, last.path, last.args[1], last.overwrite)
      [] last.op = "save_many" -> save_iter_as_json(fsPrev, last.path, last.args, last.overwrite)
      [] last.op = "load_one"  -> load_from_json(complex_factory, fsPrev, last.path)
      [] OTHER                 -> load_from_json_list(complex_factory, fsPrev, last.path)

YamlCallWithoutCodec == ~YAML_PRESENT /\ last.fmt = "yaml" /\ (IsSave \/ IsLoad)

\* C7, as stated: without a YAML codec every YAML operation fails with
\* CodecUnavailable and changes nothing, and the same call in JSON succeeds.
C7_AsStated ==
    YamlCallWithoutCodec
    => /\ last.res = "CodecUnavailable"
       /\ fs = fsPrev
       /\ JsonTwin.res = "ok"

\* C7, amended: without a YAML codec every YAML operation fails with
\* CodecUnavailable and changes nothing; no JSON operation fails with
\* CodecUnavailable, and the same save in JSON succeeds when the path passes
\* the overwrite check and the encoder accepts the records.
C7_YamlAbsent ==
    /\ YamlCallWithoutCodec
       => /\ last.res = "CodecUnavailable"
          /\ fs = fsPrev
          /\ JsonTwin.res # "CodecUnavailable"
          /\ (/\ IsSave
              /\ check_file(fsPrev, last.path, last.overwrite) = "ok"
              /\ AllInstances(last.args))
             => JsonTwin.res = "ok"
    /\ last.fmt = "json" => last.res # "CodecUnavailable"

\* without a codec, a YAML save_one of a record to a path that is free and
\* whose parent is missing has been refused
C7_Witness ==
    /\ YamlCallWithoutCodec
    /\ last.op = "save_one" /\ last.path = FilePath
    /\ last.args[1] \in Instances
    /\ ~exists(fsPrev, FilePath) /\ ~exists(fsPrev, ParentDir)
    /\ last.res = "CodecUnavailable"

\* C8: the default encoder fails with InvalidInputKind, and with nothing
\* else, on every value that is not a record instance, the record type
\* itself included.
C8_InvalidInputKind ==
    (last.op = "to_simple" /\ last.args[1] \notin Instances)
    => last.res = "InvalidInputKind"

\* C9: the target is not opened or truncated before encoding is done: when
\* the encoder fails during a save, in JSON or YAML, the target is as it was,
\* and the parent directory has been made.
C9_EncodeBeforeOpen ==
    (IsSave /\ last.res \in {"InvalidInputKind", "TypeError"})
    => /\ fs[last.path] = fsPrev[last.path]
       /\ is_dir(fs, Parent(last.path)) \/ Parent(last.path) = Root

---------------------------------------------------------------------------
(* The sequence operations: to_simple_gen and from_simple_gen are          *)
(* generators (lines 84-94).  gen is the pipeline a caller has built:      *)
(* kind "encode" is to_simple_gen(src), kind "roundtrip" is                *)
(* from_simple_gen(to_simple_gen(src)).  pos counts the items taken from   *)
(* src, out holds what next() has returned, encoded and decoded log the    *)
(* positions to_simple and from_simple were called on, nexts counts the    *)
(* calls of next(), and res is the outcome of the last of them.            *)

SeqLists == SeqsUpTo(Inputs, MaxLen)

\* calling a generator function runs none of its body
NewGen(kind, src) ==
    [kind |-> kind, src |-> src, pos |-> 0, state |-> "created",
     out |-> <<>>, encoded |-> <<>>, decoded |-> <<>>, res |-> "ok", nexts |-> 0]

\* a generator that raises, or returns, is finished
Finished(g, res) == [g EXCEPT !.state = "done", !.res = res]

\* a pipeline that encodes the whole of src at the first next()
Mut_GenNext_eager(cf, g) ==
    LET n == Len(g.src)
        e == ListToSimple(g.src, <<>>)
    IN  IF g.pos = n \/ e.res # "ok" THEN Finished([g EXCEPT !.nexts = @ + 1], "StopIteration")
        ELSE [g EXCEPT !.nexts = @ + 1, !.state = "running", !.pos = @ + 1,
                       !.encoded = IF g.pos = 0 THEN [i \in 1..n |-> i] ELSE @,
                       !.decoded = Append(@, g.pos + 1),
                       !.out = Append(@, IF g.kind = "encode" THEN e.vals[g.pos + 1]
                                         ELSE g.src[g.pos + 1])]

\* one call of next() on the pipeline: the for loop of to_simple_gen takes
\* the next item of src and yields to_simple(item); in a round trip the for
\* loop of from_simple_gen yields from_simple of that
GenNext(cf, g) ==
    LET g1 == [g EXCEPT !.nexts = @ + 1, !.state = "running"]
        i  == g.pos + 1
        e  == to_simple(g.src[i])
        g2 == [g1 EXCEPT !.pos = i, !.encoded = Append(@, i)]
        d  == from_simple(cf, e.val)
        g3 == [g2 EXCEPT !.decoded = Append(@, i)]
    IN  IF g.pos = Len(g.src) THEN Finished(g1, "StopIteration")
        ELSE IF e.res # "ok" THEN Finished(g2, e.res)
        ELSE IF g.kind = "encode" THEN [g2 EXCEPT !.out = Append(@, e.val), !.res = "ok"]
        ELSE IF d.res # "ok" THEN Finished(g3, d.res)
        ELSE [g3 EXCEPT !.out = Append(@, d.val), !.res = "ok"]

InitSeq ==
    /\ YAML_PRESENT = TRUE
    /\ complex_factory \in {"none", "DCTestClass"}
    /\ fs = InitFs
    /\ fsPrev = InitFs
    /\ last = NoOp
    /\ saved = NotSaved
    /\ gen = NoGen
    /\ callers = NoCallers

NotGen == <<YAML_PRESENT, complex_factory, fs, fsPrev, last, saved, callers>>

\* serializer.to_simple_gen(src)
ToSimpleGen ==
    \E src \in SeqLists :
        /\ gen' = NewGen("encode", src)
        /\ UNCHANGED NotGen

\* serializer.from_simple_gen(serializer.to_simple_gen(src))
FromSimpleGenOfToSimpleGen ==
    \E src \in SeqLists :
        /\ gen' = NewGen("roundtrip", src)
        /\ UNCHANGED NotGen

\* the consumer (list(), a for loop) asks for the next item
NextItem ==
    /\ gen.state \in {"created", "running"}
    /\ gen' = GenNext(complex_factory, gen)
    /\ UNCHANGED NotGen

NextSeq == ToSimpleGen \/ FromSimpleGenOfToSimpleGen \/ NextItem

SpecSeq == InitSeq /\ [][NextSeq]_vars

Upto(n) == [i \in 1..n |-> i]

\* C6: for a list of records (and, in a round trip, the inverse decoder), the
\* pipeline yields one item per element in input order, the encoding of the
\* element or, round trip, the element itself; each element is encoded and
\* decoded once, in order, and only by a call of next(); the pipeline ends
\* after the last element, having returned the whole list.
C6_SequenceRoundTrip ==
    (/\ gen.kind # "none"
     /\ AllInstances(gen.src)
     /\ gen.kind = "roundtrip" => complex_factory = "DCTestClass")
    => /\ gen.pos <= Len(gen.src)
       /\ Len(gen.out) = gen.pos
       /\ \A i \in 1..Len(gen.out) :
              gen.out[i] = IF gen.kind = "encode" THEN FieldsOf(gen.src[i]) ELSE gen.src[i]
       /\ gen.encoded = Upto(gen.pos)
       /\ gen.decoded = IF gen.kind = "roundtrip" THEN Upto(gen.pos) ELSE <<>>
       /\ Len(gen.encoded) <= gen.nexts
       /\ gen.state = "done" => gen.res = "StopIteration" /\ Len(gen.out) = Len(gen.src)

\* a round trip of two different records has been consumed to its end
C6_Witness ==
    /\ gen.kind = "roundtrip" /\ gen.state = "done" /\ gen.res = "StopIteration"
    /\ Len(gen.out) = 2 /\ gen.out[1] # gen.out[2]
    /\ gen.out = gen.src

---------------------------------------------------------------------------
(* Two callers of save_as_json at once (lines 103-107).  Nothing in the    *)
(* code locks the path, so the calls interleave between any two of their   *)
(* filesystem calls.  Each caller makes one call.                          *)

Callers == {1, 2}

Idle == [pc |-> "idle", path |-> "", obj |-> NoneVal, overwrite |-> FALSE,
         data |-> NoneVal, res |-> ""]

InitConc ==
    /\ YAML_PRESENT = TRUE
    /\ complex_factory = "DCTestClass"
    /\ fs = InitFs
    /\ fsPrev = InitFs
    /\ last = NoOp
    /\ saved = NotSaved
    /\ gen = NoGen
    /\ callers = [c \in Callers |-> Idle]

NotConc == <<YAML_PRESENT, complex_factory, fsPrev, last, saved, gen>>

\* save_as_json(path_out, complex_obj, overwrite=...) is entered
Call(c) ==
    /\ callers[c].pc = "idle"
    /\ \E path \in Targets, v \in SaveInputs, ow \in BOOLEAN :
           callers' = [callers EXCEPT ![c] =
                          [Idle EXCEPT !.pc = "check", !.path = path, !.obj = v, !.overwrite = ow]]
    /\ UNCHANGED <<fs, NotConc>>

\* line 103: check_file
Check(c) ==
    /\ callers[c].pc = "check"
    /\ LET r == check_file(fs, callers[c].path, callers[c].overwrite)
       IN  callers' = [callers EXCEPT ![c] =
                          IF r = "ok" THEN [@ EXCEPT !.pc = "mkdir"]
                          ELSE [@ EXCEPT !.pc = "done", !.res = r]]
    /\ UNCHANGED <<fs, NotConc>>

\* line 104: path_out.parent.mkdir
Mkdir(c) ==
    /\ callers[c].pc = "mkdir"
    /\ LET m == mkdir_parent(fs, callers[c].path)
       IN  /\ fs' = m.fs
           /\ callers' = [callers EXCEPT ![c] =
                             IF m.res = "ok" THEN [@ EXCEPT !.pc = "encode"]
                             ELSE [@ EXCEPT !.pc = "done", !.res = m.res]]
    /\ UNCHANGED NotConc

\* line 105: to_simple
Encode(c) ==
    /\ callers[c].pc = "encode"
    /\ LET e == to_simple(callers[c].obj)
       IN  callers' = [callers EXCEPT ![c] =
                          IF e.res = "ok" THEN [@ EXCEPT !.pc = "open", !.data = e.val]
                          ELSE [@ EXCEPT !.pc = "done", !.res = e.res]]
    /\ UNCHANGED <<fs, NotConc>>

\* line 106: open(path_out, "w")
Open(c) ==
    /\ callers[c].pc = "open"
    /\ LET o == open_w(fs, callers[c].path)
       IN  /\ fs' = o.fs
           /\ callers' = [callers EXCEPT ![c] =
                             IF o.res = "ok" THEN [@ EXCEPT !.pc = "write"]
                             ELSE [@ EXCEPT !.pc = "done", !.res = o.res]]
    /\ UNCHANGED NotConc

\* line 107: json_dump, and the file is closed
Write(c) ==
    /\ callers[c].pc = "write"
    /\ fs' = write(fs, callers[c].path, json_dump_one(callers[c].data))
    /\ callers' = [callers EXCEPT ![c] = [@ EXCEPT !.pc = "done", !.res = "ok"]]
    /\ UNCHANGED NotConc

NextConc ==
    \E c \in Callers :
        \/ Call(c)
        \/ Check(c)
        \/ Mkdir(c)
        \/ Encode(c)
        \/ Open(c)
        \/ Write(c)

SpecConc == InitConc /\ [][NextConc]_vars

\* C10: of two concurrent calls of save_one with overwrite false on the same
\* path, which does not exist at the start, at most one succeeds.
C10_AtMostOneSucceeds ==
    \A c1, c2 \in Callers :
        (/\ c1 # c2
         /\ callers[c1].path = callers[c2].path
         /\ ~callers[c1].overwrite /\ ~callers[c2].overwrite
         /\ callers[c1].pc = "done" /\ callers[c2].pc = "done")
        => ~(callers[c1].res = "ok" /\ callers[c2].res = "ok")

====
